---- MODULE Spec2Model ----
(***************************************************************************)
(* A model of the blog-agent repository: the generation engine             *)
(* (src/src/blog_generator.py, class BlogGenerator) and the batch pipeline *)
(* that drives it (src/main.py, class EnhancedBlogGenerationPipeline).     *)
(*                                                                         *)
(* Conventions.                                                            *)
(*  - Money is counted in units of 10^-7 USD, so that every rate of the    *)
(*    pricing table is an integer: 0.005/1000 USD per token is 50 units.   *)
(*    A cost of 0.00028 USD is 2800 units; rounding to 4 decimals is       *)
(*    rounding to a multiple of 1000 units.                                *)
(*  - A text is a sequence of characters, each either a blank " " or a     *)
(*    non-blank "w"; the empty string is << >>.                            *)
(*  - A Python exception is carried by its str(): the `error` strings.     *)
(***************************************************************************)
EXTENDS Integers, Sequences, FiniteSets, TLC

\* ------------------------------------------------------------------ bounds
\* Largest number of rows of the Website sheet (the link collection).
MaxLinks == 4
\* Largest number of rows of the key topics sheet.
MaxTopics == 6
\* Largest number of generate_blog calls served by one engine in Spec.
MaxCalls == 2
\* calculate_cost is called with the token counts 0..MaxTokens (and 50).
MaxTokens == 3
\* generate_blogs is called again on a pipeline only while its result list holds
\* fewer than MaxBatchResults results.
MaxBatchResults == 3
\* Largest number of /api/generate-blog requests the server is given.
MaxRequests == 2
\* Largest number of blog_*.txt files the manager report reads.
MaxReportFiles == 2
\* Largest number of topic ids in the body of an /api/generate-multiple request.
MaxTopicIds == 12
\* Largest number of lines of a blog content given to the meta extractors.
MaxMetaLines == 4

\* ------------------------------------------------------- program constants
\* The number of blogs generate_blogs generates when num_blogs is None.
DefaultBlogs == 5
\* The largest 'count' /api/generate-multiple accepts.
ApiLimit == 10
\* The 'count' of an /api/generate-multiple request that names none.
DefaultCount == 3

VARIABLES
    website_links,  \* the Website sheet: a sequence of link names, one per row
    eng,            \* BlogGenerator.total_input_tokens / _output_tokens / _cost
    call,           \* the last generate_blog call: its inputs, trace and outcome
    ncalls,         \* how many generate_blog calls the engine has served
    cost_call,      \* the last calculate_cost call made on its own: arguments, value
    corpus,         \* the workbook on disk
    pipe,           \* the pipeline object: loaded attributes, results, running totals
    batch,          \* the generate_blogs call: where it is, what it returned
    files,          \* generated_blogs/: the blog_index of each report file written
    airtable,       \* the remote table: the records appended
    trace,          \* what the generate_blogs call did, in order
    outdir,         \* whether the directory generated_blogs/ exists
    summary,        \* the run summary save_enhanced_summary has written, if any
    run,            \* the run_complete_pipeline call: where it is, what it returned
    meta,           \* the last meta extraction: the content given, what was extracted
    api,            \* the /api/generate-multiple request being served, and its response
    threads,        \* the /api/generate-blog requests being served, one thread each
    report,         \* the last create_manager_report call: the files read, the outcome
    writer          \* the last call of an Airtable tool: its arguments, what it returned

vars == <<website_links, eng, call, ncalls, cost_call, corpus, pipe, batch, files, airtable, trace,
          outdir, summary, run, meta, api, threads, report, writer>>
engVars == <<website_links, eng, call, ncalls, cost_call>>
pipeVars == <<corpus, pipe, batch, files, airtable, trace, outdir, summary, run>>
runVars == <<outdir, summary, run>>
sideVars == <<meta, api, threads, report, writer>>

\* ------------------------------------------------------------ small helpers
Min(a, b) == IF a < b THEN a ELSE b
Range(f) == { f[i] : i \in DOMAIN f }

\* Python's None, where the model needs it as a model name.
None == "None"

\* The Name column of rows the Website sheet can hold.
LinkPool == <<"Docs", "Blog", "Pricing", "About", "Careers", "Press">>

\* ------------------------------------------------- the completion collaborator
\* What openai.ChatCompletion.create does when called: it raises, or returns.
Raise(e) == [kind |-> "raise", error |-> e]
Return(r) == [kind |-> "return", response |-> r]

\* Errors the completion call raises (their str()).
CompletionErrors == {"AuthenticationError", "RateLimitError"}

\* The usage block of a response.
Usage(p, c, t) == [prompt_tokens |-> p, completion_tokens |-> c, total_tokens |-> t]

\* The response's shape:
\*   "empty"        None or an empty mapping (falsy in Python)
\*   "no_choices"   a non-empty mapping without choices[0].message.content
\*   "null_content" the content is None; usage is present
\*   "no_usage"     the content is a string; there is no usage key
\*   "complete"     the content is a string and usage is present
Response(shape, content, usage) == [shape |-> shape, content |-> content, usage |-> usage]

\* The value of `response` before any candidate has returned (line 178).
NoResponse == Response("empty", << >>, Usage(0, 0, 0))

\* The contents a completion may carry: "", "w w" (two words).
Contents == { << >>, <<"w", " ", "w">> }

\* The usage blocks a completion may report; the second one's total_tokens is
\* not the sum of its two counts.
Usages == { Usage(50, 2, 52), Usage(50, 2, 53), Usage(0, 0, 0) }

Responses ==
    { Response("empty", << >>, Usage(0, 0, 0)),
      Response("no_choices", << >>, Usage(0, 0, 0)) }
    \cup { Response("null_content", << >>, u) : u \in {Usage(50, 2, 52)} }
    \cup { Response("no_usage", c, Usage(0, 0, 0)) : c \in Contents }
    \cup { Response("complete", c, u) : c \in Contents, u \in Usages }

Outcomes == { Raise(e) : e \in CompletionErrors } \cup { Return(r) : r \in Responses }

\* The answers of the collaborator to one generate_blog call, in the order the
\* candidates are asked: a second answer exists only if the first call raised.
OutcomeSeqs ==
    { <<o>> : o \in { x \in Outcomes : x.kind = "return" } }
    \cup { <<o1, o2>> : o1 \in { x \in Outcomes : x.kind = "raise" }, o2 \in Outcomes }

\* ---------------------------------------------------------------- BlogGenerator
\* self.pricing, in units of 10^-7 USD per token.
pricing ==
    [m \in {"gpt-4o", "gpt-3.5-turbo"} |->
        IF m = "gpt-4o" THEN [input |-> 50, output |-> 150]
                        ELSE [input |-> 5, output |-> 15]]

\* The counters a BlogGenerator is constructed with.
NewCounters == [total_input_tokens |-> 0, total_output_tokens |-> 0, total_cost |-> 0]

\* calculate_cost with its result rounded to 4 decimals (a multiple of 1000 units).
calculate_cost_rounded(input_tokens, output_tokens, model) ==
    LET m == IF model \notin DOMAIN pricing THEN "gpt-4o" ELSE model
        c == input_tokens * pricing[m].input + output_tokens * pricing[m].output
    IN ((c + 500) \div 1000) * 1000

calculate_cost(input_tokens, output_tokens, model) ==
    LET m == IF model \notin DOMAIN pricing THEN "gpt-4o" ELSE model
        input_cost == input_tokens * pricing[m].input
        output_cost == output_tokens * pricing[m].output
    IN input_cost + output_cost

\* len(text.split()): the number of maximal runs of non-blank characters.
WordCount(text) ==
    Cardinality({ i \in 1..Len(text) : text[i] # " " /\ (i = 1 \/ text[i - 1] = " ") })

\* Rows drawn with replacement: a row may be drawn again.
SamplesWithReplacement(links) == [1..Min(3, Len(links)) -> 1..Len(links)]

\* website_links.sample(min(3, len(website_links))): rows drawn without
\* replacement, in the order drawn. A sample is a sequence of row numbers.
Samples(links) ==
    { s \in [1..Min(3, Len(links)) -> 1..Len(links)] :
        \A i, j \in DOMAIN s : i # j => s[i] # s[j] }

\* The Name column of a sample, as a list.
SampleNames(links, sample) == [j \in DOMAIN sample |-> links[sample[j]]]

\* topic_data.get('Topic', 'Unknown')
Unknown == <<"Unknown">>
TopicName(topic_data) ==
    IF "Topic" \in DOMAIN topic_data THEN topic_data.Topic ELSE Unknown

models_to_try == <<"gpt-4o", "gpt-3.5-turbo">>

\* The candidate loop: each candidate is asked in turn until one returns.
RECURSIVE TryModels(_, _)
TryModels(i, outcomes) ==
    IF i > Len(models_to_try)
    THEN [response |-> NoResponse, model |-> None, invoked |-> << >>]
    ELSE IF outcomes[i].kind = "return"
         THEN [response |-> outcomes[i].response,
               model |-> models_to_try[i],
               invoked |-> <<models_to_try[i]>>]
         ELSE LET rest == TryModels(i + 1, outcomes)
              IN [rest EXCEPT !.invoked = <<models_to_try[i]>> \o @]

\* str() of the exceptions generate_blog's own statements raise.
ErrAllFailed == "All models failed"
ErrChoices == "'choices'"
ErrUsage == "'usage'"
ErrSplit == "'NoneType' object has no attribute 'split'"

\* The dictionary returned on the success path.
SuccessResult(topic_name, content, links_used, model, usage, cost) ==
    [topic |-> topic_name,
     content |-> content,
     links_used |-> links_used,
     word_count |-> WordCount(content),
     model_used |-> model,
     input_tokens |-> usage.prompt_tokens,
     output_tokens |-> usage.completion_tokens,
     total_tokens |-> usage.total_tokens,
     cost |-> cost,
     status |-> "success"]

\* A failed-result dictionary that keeps the usage of the attempt.
FailedResultKeepingUsage(topic_data, error) ==
    [topic |-> TopicName(topic_data),
     content |-> << >>,
     error |-> error,
     model_used |-> "unknown",
     input_tokens |-> 50,
     output_tokens |-> 0,
     total_tokens |-> 50,
     cost |-> 0,
     status |-> "failed"]

\* The dictionary returned by the except clause.
FailedResult(topic_data, error) ==
    [topic |-> TopicName(topic_data),
     content |-> << >>,
     error |-> error,
     model_used |-> "unknown",
     input_tokens |-> 0,
     output_tokens |-> 0,
     total_tokens |-> 0,
     cost |-> 0,
     status |-> "failed"]

\* How a block of statements ends: by raising, or by returning a value.
Raised(error, counters, invoked) ==
    [raised |-> TRUE, error |-> error, counters |-> counters, invoked |-> invoked]
Returned(result, counters, invoked) ==
    [raised |-> FALSE, result |-> result, counters |-> counters, invoked |-> invoked]

\* The try block of generate_blog, from the candidate loop on. sample2 is the
\* sample drawn while the result dictionary is built.
generate_blog_try(topic_data, links, outcomes, sample2, counters) ==
    LET t == TryModels(1, outcomes)
        response == t.response
    IN  IF response.shape = "empty" THEN Raised(ErrAllFailed, counters, t.invoked)
        ELSE IF response.shape = "no_choices" THEN Raised(ErrChoices, counters, t.invoked)
        ELSE IF response.shape = "no_usage" THEN Raised(ErrUsage, counters, t.invoked)
        ELSE
          LET usage == response.usage
              cost == calculate_cost(usage.prompt_tokens, usage.completion_tokens, t.model)
              counted ==
                [total_input_tokens |-> counters.total_input_tokens + usage.prompt_tokens,
                 total_output_tokens |-> counters.total_output_tokens + usage.completion_tokens,
                 total_cost |-> counters.total_cost + cost]
          IN  IF response.shape = "null_content"
              THEN Raised(ErrSplit, counted, t.invoked)
              ELSE Returned(SuccessResult(TopicName(topic_data), response.content,
                                          SampleNames(links, sample2), t.model, usage, cost),
                            counted, t.invoked)

\* An except clause that catches RuntimeError only.
generate_blog_except_runtime_only(topic_data, error) ==
    IF error = ErrAllFailed
    THEN [raised |-> FALSE, result |-> FailedResult(topic_data, error)]
    ELSE [raised |-> TRUE, error |-> error]

\* The except clause of generate_blog: every Exception becomes a failed result.
generate_blog_except(topic_data, error) ==
    [raised |-> FALSE, result |-> FailedResult(topic_data, error)]

\* generate_blog: what it returns (ret), the counters it leaves, the candidates
\* it invoked, and the link names it rendered into the prompt (sample1).
generate_blog(topic_data, links, outcomes, sample1, sample2, counters) ==
    LET body == generate_blog_try(topic_data, links, outcomes, sample2, counters)
    IN  [ret |-> IF body.raised
                 THEN generate_blog_except(topic_data, body.error)
                 ELSE [raised |-> FALSE, result |-> body.result],
         counters |-> body.counters,
         invoked |-> body.invoked,
         prompt_links |-> SampleNames(links, sample1)]

\* Whether the call gets as far as building the result dictionary, where the
\* second sample is drawn.
BuildsResult(outcomes) ==
    TryModels(1, outcomes).response.shape \in {"null_content", "complete"}

\* --------------------------------------------------------- the engine, called
\* The topic records a caller hands to generate_blog: a row of the key topics
\* sheet, named by its row number.
TopicRow(i) == [Topic |-> <<"Topic", i>>]

\* No generate_blog call is on record.
NoCall == [done |-> FALSE]

\* The Website sheets a run may load: the first k names of the pool.
LinkSheets == { SubSeq(LinkPool, 1, k) : k \in 0..MaxLinks }

\* One generate_blog call on the engine, start to return.
GenerateBlog ==
    /\ ~call.done
    /\ ncalls < MaxCalls
    /\ \E outcomes \in OutcomeSeqs, sample1 \in Samples(website_links) :
       \E sample2 \in (IF BuildsResult(outcomes) THEN Samples(website_links) ELSE {<< >>}) :
          LET topic_data == TopicRow(1)
              g == generate_blog(topic_data, website_links, outcomes, sample1, sample2, eng)
          IN  /\ eng' = g.counters
              /\ call' = [done |-> TRUE,
                          topic_data |-> topic_data,
                          outcomes |-> outcomes,
                          before |-> eng,
                          invoked |-> g.invoked,
                          prompt_links |-> g.prompt_links,
                          ret |-> g.ret]
    /\ ncalls' = ncalls + 1
    /\ UNCHANGED <<website_links, cost_call>>
    /\ UNCHANGED pipeVars
    /\ UNCHANGED sideVars

\* The call is over and its frame is gone: of a generate_blog call the engine
\* keeps its three counters and nothing else, so the record of the call is
\* dropped before the next one.  What a caller does with the dictionary it was
\* handed (the report file and the remote append of generate_blogs, the
\* remote append and the response of the web routes) is no part of the engine
\* and is modelled with those callers.
DiscardResult ==
    /\ call.done
    /\ call' = NoCall
    /\ UNCHANGED <<website_links, eng, ncalls, cost_call>>
    /\ UNCHANGED pipeVars
    /\ UNCHANGED sideVars

\* The model names calculate_cost is called with: the two of the pricing
\* table and one that is not in it.
ModelNames == {"gpt-4o", "gpt-3.5-turbo", "gpt-4"}

\* The token counts calculate_cost is called with.
TokenCounts == 0..MaxTokens \cup {50}

NoCostCall == [done |-> FALSE]

\* One calculate_cost call.
CalculateCost ==
    /\ \E input_tokens \in TokenCounts, output_tokens \in TokenCounts, model \in ModelNames :
          cost_call' = [done |-> TRUE,
                        input_tokens |-> input_tokens,
                        output_tokens |-> output_tokens,
                        model |-> model,
                        ret |-> calculate_cost(input_tokens, output_tokens, model)]
    /\ UNCHANGED <<website_links, eng, call, ncalls>>
    /\ UNCHANGED pipeVars
    /\ UNCHANGED sideVars

\* ------------------------------------------------ EnhancedBlogGenerationPipeline
\* The sheets ExcelReader.read_all_sheets expects, in the order load_data reads them.
expected_sheets == <<"SEO - Keywords", "LLM - Keywords", "Website", "key topics">>

\* The workbook on disk: whether the file exists, which of the expected sheets
\* it holds, and how many rows its key topics sheet has.
Workbook(exists, sheets, topics) == [exists |-> exists, sheets |-> sheets, topics |-> topics]
NoWorkbook == Workbook(FALSE, {}, 0)
Workbooks ==
    { NoWorkbook, Workbook(TRUE, {}, 0) }
    \cup { Workbook(TRUE, Range(expected_sheets), m) : m \in 0..MaxTopics }
    \cup { Workbook(TRUE, Range(expected_sheets) \ {sheet}, 1) : sheet \in Range(expected_sheets) }

\* The pipeline object after __init__: no attribute loaded, no result, totals 0.
NewPipeline ==
    [attrs |-> {},
     load_ret |-> "not called",
     results |-> << >>,
     total_input_tokens |-> 0,
     total_output_tokens |-> 0,
     total_cost |-> 0]

\* No generate_blogs call has been made.
NoBatch == [pc |-> "idle"]

\* read_all_sheets: None when the file cannot be read, else the sheets found.
read_all_sheets(book) ==
    IF ~book.exists THEN [none |-> TRUE, data |-> {}]
    ELSE [none |-> FALSE, data |-> book.sheets]

\* The attributes load_data assigns, in order, one per expected sheet.
sheet_attrs == <<"seo_keywords", "llm_keywords", "website_links", "key_topics">>

\* The number of leading expected sheets that are present: load_data assigns
\* that many attributes before a missing sheet raises KeyError.
RECURSIVE AssignedUpTo(_, _)
AssignedUpTo(data, i) ==
    IF i > Len(expected_sheets) \/ expected_sheets[i] \notin data THEN i - 1
    ELSE AssignedUpTo(data, i + 1)

\* load_data: the pipeline object after the call, load_ret being what the call
\* did: returned True or False, or raised KeyError on the first missing sheet.
load_data(p, book) ==
    LET read == read_all_sheets(book)
        k == AssignedUpTo(read.data, 1)
    IN  IF read.none \/ read.data = {}
        THEN [p EXCEPT !.load_ret = "False"]
        ELSE [p EXCEPT !.attrs = { sheet_attrs[j] : j \in 1..k },
                       !.load_ret = IF k = Len(expected_sheets) THEN "True"
                                    ELSE "KeyError"]

\* load_data, called on its own.
LoadData ==
    /\ pipe.load_ret = "not called"
    /\ batch.pc = "idle"
    /\ pipe' = load_data(pipe, corpus)
    /\ UNCHANGED <<corpus, batch, files, airtable, trace>>
    /\ UNCHANGED runVars
    /\ UNCHANGED engVars
    /\ UNCHANGED sideVars

\* The num_blogs arguments generate_blogs is called with: None, or an integer.
NumBlogsNone == [given |-> FALSE, n |-> 0]
NumBlogs(n) == [given |-> TRUE, n |-> n]
NumBlogsArgs == { NumBlogsNone } \cup { NumBlogs(n) : n \in (0 - 1)..(MaxTopics + 1) }

\* How many topics generate_blogs processes.
BlogsToGenerate(num_blogs, total_topics) ==
    IF ~num_blogs.given THEN Min(DefaultBlogs, total_topics)
    ELSE Min(num_blogs.n, total_topics)

\* generate_blogs(num_blogs), up to its loop: without key_topics it returns []
\* at once.
EnterGenerateBlogs(num_blogs) ==
    IF "key_topics" \notin pipe.attrs
    THEN [pc |-> "returned", arg |-> num_blogs, num_blogs |-> 0, i |-> 0,
          remote_rets |-> << >>, ret |-> << >>]
    ELSE [pc |-> "loop", arg |-> num_blogs,
          num_blogs |-> BlogsToGenerate(num_blogs, corpus.topics), i |-> 0,
          remote_rets |-> << >>]

\* generate_blogs, called on its own.
GenerateBlogsStart ==
    /\ batch.pc = "idle"
    /\ run.pc = "idle"
    /\ \E num_blogs \in NumBlogsArgs : batch' = EnterGenerateBlogs(num_blogs)
    /\ trace' = << >>
    /\ UNCHANGED <<corpus, pipe, files, airtable>>
    /\ UNCHANGED runVars
    /\ UNCHANGED engVars
    /\ UNCHANGED sideVars

\* generate_blogs, called again on a pipeline whose earlier call has returned:
\* self.results and the running totals are as that call left them.
GenerateBlogsAgain ==
    /\ batch.pc = "returned"
    /\ run.pc = "idle"
    /\ Len(pipe.results) < MaxBatchResults
    /\ \E num_blogs \in NumBlogsArgs : batch' = EnterGenerateBlogs(num_blogs)
    /\ trace' = << >>
    /\ UNCHANGED <<corpus, pipe, files, airtable>>
    /\ UNCHANGED runVars
    /\ UNCHANGED engVars
    /\ UNCHANGED sideVars

\* What the collaborator answers during a batch: the primary returns a complete
\* response, or one whose content is None, or both candidates raise.
BatchOutcomeSeqs ==
    { <<Return(Response("complete", <<"w", " ", "w">>, Usage(50, 2, 52)))>>,
      <<Return(Response("null_content", << >>, Usage(50, 2, 52)))>>,
      <<Raise("RateLimitError"), Raise("RateLimitError")>> }

\* What the remote append meets: the record is stored (HTTP 200), the request
\* is refused (HTTP 422), requests.post raises, or the writer was constructed
\* without credentials and has no base_url (AttributeError).
AirtableOutcomes == {"200", "422", "ConnectionError", "no credentials"}

\* write_blog_to_airtable with its try block taken away: what is raised inside
\* reaches the caller.
write_blog_to_airtable_unguarded(table, blog_result, outcome) ==
    IF outcome = "200"
    THEN [table |-> Append(table, [Name |-> blog_result.topic,
                                   blog_index |-> blog_result.blog_index]),
          raised |-> FALSE, ret |-> TRUE]
    ELSE [table |-> table, raised |-> outcome # "422", ret |-> FALSE]

\* write_blog_to_airtable: the table after the call, and what the call returns.
\* The whole body is inside a try block, so nothing is raised.
write_blog_to_airtable(table, blog_result, outcome) ==
    IF outcome = "200"
    THEN [table |-> Append(table, [Name |-> blog_result.topic,
                                   blog_index |-> blog_result.blog_index]),
          raised |-> FALSE, ret |-> TRUE]
    ELSE [table |-> table, raised |-> FALSE, ret |-> FALSE]

\* The test generate_blogs makes without a test at all.
IsSuccessAlways(result) == TRUE

\* The test generate_blogs makes before it counts a result and before it hands
\* it to the sinks.
IsSuccess(result) == result.status = "success"

\* The running totals assigned from each result instead of added to.
count_result_assigning(p, result) ==
    [p EXCEPT !.total_input_tokens = result.input_tokens,
              !.total_output_tokens = result.output_tokens,
              !.total_cost = result.cost]

\* The running totals after a result: a success is added to them, a failure
\* leaves them.
count_result(p, result) ==
    IF IsSuccess(result)
    THEN [p EXCEPT !.total_input_tokens = @ + result.input_tokens,
                   !.total_output_tokens = @ + result.output_tokens,
                   !.total_cost = @ + result.cost]
    ELSE p

\* The sinks of a successful topic with the remote append put first.
SinkEventsRemoteFirst(i, file_ok) ==
    (IF file_ok THEN <<<<"airtable", i>>>> ELSE << >>) \o <<<<"file", i>>>>

\* What generate_blogs does with a successful topic, in order: it writes the
\* report file and, the file written, calls the remote append.
SinkEvents(i, file_ok) ==
    <<<<"file", i>>>> \o (IF file_ok THEN <<<<"airtable", i>>>> ELSE << >>)

\* One pass of the loop of generate_blogs: topic i + 1 is generated, stamped,
\* counted, appended, and for a success written to the file and to Airtable.
\* file_ok is whether the report file can be written; if not, makedirs raises
\* (dir_made FALSE) or makedirs makes the directory and open() raises (dir_made
\* TRUE), and the exception leaves generate_blogs.  The sinks are drawn only
\* where the call reaches them.
GenerateBlogsStep ==
    /\ batch.pc = "loop"
    /\ batch.i < batch.num_blogs
    /\ \E outcomes \in BatchOutcomeSeqs, sample1 \in Samples(website_links) :
       \E sample2 \in (IF BuildsResult(outcomes) THEN Samples(website_links) ELSE {<< >>}),
          file_ok \in (IF BuildsResult(outcomes) THEN BOOLEAN ELSE {TRUE}) :
       \E remote \in (IF BuildsResult(outcomes) /\ file_ok THEN AirtableOutcomes ELSE {"200"}),
          dir_made \in (IF BuildsResult(outcomes) /\ ~file_ok THEN BOOLEAN ELSE {TRUE}) :
          LET i == batch.i
              topic_data == TopicRow(i + 1)
              g == generate_blog(topic_data, website_links, outcomes, sample1, sample2, eng)
              result == g.ret.result @@ [blog_index |-> i + 1]
              ok == IsSuccess(result)
              counted == count_result(pipe, result)
              w == write_blog_to_airtable(airtable, result, remote)
          IN  /\ ~g.ret.raised
              /\ eng' = g.counters
              /\ pipe' = [counted EXCEPT !.results = Append(@, result)]
              /\ files' = IF ok /\ file_ok THEN Append(files, i + 1) ELSE files
              /\ outdir' = IF ok /\ dir_made THEN TRUE ELSE outdir
              /\ airtable' = IF ok /\ file_ok THEN w.table ELSE airtable
              /\ trace' = trace \o <<<<"generate", i + 1>>>>
                                \o (IF ok THEN SinkEvents(i + 1, file_ok) ELSE << >>)
              /\ batch' =
                   IF ok /\ ~file_ok
                   THEN [batch EXCEPT !.pc = "raised", !.i = i + 1]
                   ELSE IF ok /\ w.raised
                   THEN [batch EXCEPT !.pc = "raised", !.i = i + 1]
                   ELSE IF ok
                   THEN [batch EXCEPT !.i = i + 1,
                                      !.remote_rets = Append(@, <<i + 1, w.ret>>)]
                   ELSE [batch EXCEPT !.i = i + 1]
    /\ UNCHANGED <<corpus, website_links, call, ncalls, cost_call, summary, run>>
    /\ UNCHANGED sideVars

\* generate_blogs returns self.results once the loop is over.
GenerateBlogsReturn ==
    /\ batch.pc = "loop"
    /\ batch.i >= batch.num_blogs
    /\ batch' = [batch EXCEPT !.pc = "returned"] @@ [ret |-> pipe.results]
    /\ UNCHANGED <<corpus, pipe, files, airtable, trace>>
    /\ UNCHANGED runVars
    /\ UNCHANGED engVars
    /\ UNCHANGED sideVars

\* ------------------------------------------------------- run_complete_pipeline
\* What the connectivity call of BlogGenerator.test_connection does.
ConnectionOutcomes == {"ok", "RateLimitError", "AuthenticationError", "Exception"}

\* test_connection, were the connectivity call metered like a generation call.
test_connection_metered(counters, outcome) ==
    [ret |-> outcome = "ok",
     counters |-> IF outcome = "ok"
                  THEN [counters EXCEPT !.total_input_tokens = @ + 1,
                                        !.total_output_tokens = @ + 1,
                                        !.total_cost = @ + calculate_cost(1, 1, "gpt-3.5-turbo")]
                  ELSE counters]

\* BlogGenerator.test_connection: True when the connectivity call returns, False
\* when it raises; the counters are not touched.
test_connection(counters, outcome) ==
    [ret |-> outcome = "ok", counters |-> counters]

\* test_connections: False when the engine's test fails; a failed Airtable test
\* is only reported.
test_connections(counters, openai, airtable_ok) ==
    LET t == test_connection(counters, openai)
    IN  [ret |-> t.ret, counters |-> t.counters]

\* No summary file has been written.
NoSummary == [written |-> FALSE]

\* round(num / den, 4) of an amount in units of 10^-7 USD: the nearest multiple
\* of 1000 units.  Where the amount is half-way between two multiples the code
\* rounds the binary float it holds, which lies just below or just above the
\* half (round(0.00025, 4) is 0.0003, round(0.00045, 4) is 0.0004): up says
\* which.
Round4(num, den, up) ==
    LET q == num \div (1000 * den)
        r == num - q * 1000 * den
    IN  IF 2 * r < 1000 * den THEN q * 1000
        ELSE IF 2 * r > 1000 * den THEN (q + 1) * 1000
        ELSE IF up THEN (q + 1) * 1000
        ELSE q * 1000

\* The ways round(num / den, 4) can go: both at a half, one elsewhere.
Ties(num, den) ==
    IF den > 0 /\ 2 * (num % (1000 * den)) = 1000 * den THEN BOOLEAN ELSE {FALSE}

\* The results of the given status.
RECURSIVE WithStatus(_, _)
WithStatus(results, status) ==
    IF results = << >> THEN << >>
    ELSE (IF Head(results).status = status THEN <<Head(results)>> ELSE << >>)
         \o WithStatus(Tail(results), status)

\* The generation_summary block save_enhanced_summary builds.
generation_summary(p, ups) ==
    LET successful_blogs == WithStatus(p.results, "success")
        failed_blogs == WithStatus(p.results, "failed")
        tokens == p.total_input_tokens + p.total_output_tokens
    IN  [total_blogs_attempted |-> Len(p.results),
         successful_blogs |-> Len(successful_blogs),
         failed_blogs |-> Len(failed_blogs),
         total_input_tokens |-> p.total_input_tokens,
         total_output_tokens |-> p.total_output_tokens,
         total_tokens |-> tokens,
         total_cost |-> Round4(p.total_cost, 1, ups[1]),
         average_cost_per_blog |->
             IF Len(successful_blogs) > 0
             THEN Round4(p.total_cost, Len(successful_blogs), ups[2]) ELSE 0,
         cost_per_1k_tokens |->
             IF tokens > 0 THEN Round4(p.total_cost * 1000, tokens, ups[3]) ELSE 0]

\* The ways the three roundings of generation_summary can go.
SummaryTies(p) ==
    Ties(p.total_cost, 1)
        \X Ties(p.total_cost, Len(WithStatus(p.results, "success")))
        \X Ties(p.total_cost * 1000, p.total_input_tokens + p.total_output_tokens)

\* save_enhanced_summary: with no result it returns at once and writes nothing;
\* else it builds the summary and opens its two files in generated_blogs/,
\* which raises FileNotFoundError when the directory does not exist.
save_enhanced_summary(p, dir_exists, old, ups) ==
    IF p.results = << >> THEN [raised |-> FALSE, summary |-> old]
    ELSE IF ~dir_exists THEN [raised |-> TRUE, summary |-> old]
    ELSE [raised |-> FALSE,
          summary |-> [written |-> TRUE, generation_summary |-> generation_summary(p, ups)]]

\* No run_complete_pipeline call has been made.
NoRun == [pc |-> "idle"]

\* run_complete_pipeline returned ret.
RunReturned(r, ret) == [pc |-> "returned", num_blogs |-> r.num_blogs, ret |-> ret]
\* An exception left run_complete_pipeline.
RunRaised(r, error) == [pc |-> "raised", num_blogs |-> r.num_blogs, error |-> error]

\* run_complete_pipeline(num_blogs) is called on a fresh pipeline.
RunCompletePipeline ==
    /\ run.pc = "idle"
    /\ batch.pc = "idle"
    /\ pipe.load_ret = "not called"
    /\ \E num_blogs \in NumBlogsArgs : run' = [pc |-> "load_data", num_blogs |-> num_blogs]
    /\ UNCHANGED <<corpus, pipe, batch, files, airtable, trace, outdir, summary>>
    /\ UNCHANGED engVars
    /\ UNCHANGED sideVars

\* Step 1: load_data; False is returned when it returns False, and its
\* KeyError is not caught.
RunLoadData ==
    /\ run.pc = "load_data"
    /\ LET p == load_data(pipe, corpus)
       IN  /\ pipe' = p
           /\ run' = IF p.load_ret = "False" THEN RunReturned(run, FALSE)
                     ELSE IF p.load_ret = "KeyError" THEN RunRaised(run, "KeyError")
                     ELSE [run EXCEPT !.pc = "test_connections"]
    /\ UNCHANGED <<corpus, batch, files, airtable, trace, outdir, summary>>
    /\ UNCHANGED engVars
    /\ UNCHANGED sideVars

\* Step 2: test_connections; False is returned when it returns False.
RunTestConnections ==
    /\ run.pc = "test_connections"
    /\ \E openai \in ConnectionOutcomes, airtable_ok \in BOOLEAN :
          LET t == test_connections(eng, openai, airtable_ok)
          IN  /\ eng' = t.counters
              /\ run' = IF t.ret THEN [run EXCEPT !.pc = "generate_blogs"]
                        ELSE RunReturned(run, FALSE)
    /\ UNCHANGED <<website_links, call, ncalls, cost_call>>
    /\ UNCHANGED <<corpus, pipe, batch, files, airtable, trace, outdir, summary>>
    /\ UNCHANGED sideVars

\* Step 3: generate_blogs(num_blogs) is entered; its loop is GenerateBlogsStep.
RunGenerateBlogs ==
    /\ run.pc = "generate_blogs"
    /\ batch.pc = "idle"
    /\ batch' = EnterGenerateBlogs(run.num_blogs)
    /\ trace' = << >>
    /\ run' = [run EXCEPT !.pc = "generating"]
    /\ UNCHANGED <<corpus, pipe, files, airtable, outdir, summary>>
    /\ UNCHANGED engVars
    /\ UNCHANGED sideVars

\* An exception that leaves generate_blogs leaves run_complete_pipeline.
RunGenerateBlogsRaised ==
    /\ run.pc = "generating"
    /\ batch.pc = "raised"
    /\ run' = RunRaised(run, "OSError")
    /\ UNCHANGED <<corpus, pipe, batch, files, airtable, trace, outdir, summary>>
    /\ UNCHANGED engVars
    /\ UNCHANGED sideVars

\* Steps 4 and 5: save_enhanced_summary, then the final report is printed and
\* True is returned; an exception of save_enhanced_summary is not caught.
RunSaveEnhancedSummary ==
    /\ run.pc = "generating"
    /\ batch.pc = "returned"
    /\ \E ups \in SummaryTies(pipe) :
          LET s == save_enhanced_summary(pipe, outdir, summary, ups)
          IN  /\ summary' = s.summary
              /\ run' = IF s.raised THEN RunRaised(run, "FileNotFoundError")
                        ELSE RunReturned(run, TRUE)
    /\ UNCHANGED <<corpus, pipe, batch, files, airtable, trace, outdir>>
    /\ UNCHANGED engVars
    /\ UNCHANGED sideVars

\* ------------------------------------------------------------ tools and web API
\* No meta extraction is on record.
NoMeta == [done |-> FALSE]
\* No /api/generate-multiple request is being served.
NoApi == [pc |-> "idle"]
\* No /api/generate-blog request is being served.
NoThreads == << >>
\* No create_manager_report call is on record.
NoReport == [done |-> FALSE]
\* No Airtable tool has been called.
NoWriter == [done |-> FALSE]

\* ------------------------------------------------------------- meta extraction
\* A blog content is a sequence of pieces of text: the two sentinels, the line
\* break, the blank, and words.
META_TITLE == "META_TITLE:"
META_DESCRIPTION == "META_DESCRIPTION:"
NewLine == "\n"

\* The lines a blog content is made of in the model: a title line, a second
\* title line that ends in a blank, a description line, a second description
\* line without a blank after the sentinel, an empty line, a body line, and a
\* line where the sentinel comes after a blank.
MetaLines ==
    { <<META_TITLE, " ", "Foo">>,
      <<META_TITLE, " ", "Bar", " ">>,
      <<META_DESCRIPTION, " ", "Bar">>,
      <<META_DESCRIPTION, "Foo">>,
      << >>,
      <<"Body">>,
      <<" ", META_TITLE, " ", "Body">> }

\* '\n'.join(lines)
RECURSIVE JoinLines(_)
JoinLines(lines) ==
    IF Len(lines) = 0 THEN << >>
    ELSE IF Len(lines) = 1 THEN lines[1]
    ELSE lines[1] \o <<NewLine>> \o JoinLines(Tail(lines))

\* The blog contents the extractors are given: up to MaxMetaLines lines.
BlogContents ==
    { JoinLines(lines) : lines \in UNION { [1..n -> MetaLines] : n \in 1..MaxMetaLines } }

\* content.split('\n'): the pieces between the line breaks, at least one.
RECURSIVE SplitLines(_)
SplitLines(content) ==
    IF \A i \in DOMAIN content : content[i] # NewLine THEN <<content>>
    ELSE LET k == CHOOSE i \in DOMAIN content :
                      /\ content[i] = NewLine
                      /\ \A j \in 1..(i - 1) : content[j] # NewLine
         IN  <<SubSeq(content, 1, k - 1)>> \o SplitLines(SubSeq(content, k + 1, Len(content)))

\* line.startswith(sentinel)
StartsWith(line, sentinel) == Len(line) >= 1 /\ line[1] = sentinel

\* line.replace(sentinel, ''): every occurrence of the sentinel is taken out.
Replaced(line, sentinel) == SelectSeq(line, LAMBDA piece : piece # sentinel)

\* text.strip(): leading and trailing whitespace is dropped.
RECURSIVE Strip(_)
Strip(text) ==
    IF text = << >> THEN text
    ELSE IF Head(text) \in {" ", NewLine} THEN Strip(Tail(text))
    ELSE IF text[Len(text)] \in {" ", NewLine} THEN Strip(SubSeq(text, 1, Len(text) - 1))
    ELSE text

\* The loop of both extractors: every line that starts with a sentinel assigns
\* the field of that sentinel.
RECURSIVE ScanMeta(_, _, _)
ScanMeta(lines, meta_title, meta_description) ==
    IF lines = << >> THEN [meta_title |-> meta_title, meta_description |-> meta_description]
    ELSE IF StartsWith(Head(lines), META_TITLE)
    THEN ScanMeta(Tail(lines), Strip(Replaced(Head(lines), META_TITLE)), meta_description)
    ELSE IF StartsWith(Head(lines), META_DESCRIPTION)
    THEN ScanMeta(Tail(lines), meta_title, Strip(Replaced(Head(lines), META_DESCRIPTION)))
    ELSE ScanMeta(Tail(lines), meta_title, meta_description)

\* AirtableBlogWriter.extract_blog_sections: a dictionary of three sections.
extract_blog_sections(blog_content) ==
    LET scanned == ScanMeta(SplitLines(blog_content), << >>, << >>)
    IN  [meta_title |-> scanned.meta_title,
         meta_description |-> scanned.meta_description,
         main_content |-> blog_content]

\* SheetsWriter.extract_meta_from_blog: the pair (meta_title, meta_description).
extract_meta_from_blog(blog_content) ==
    LET scanned == ScanMeta(SplitLines(blog_content), << >>, << >>)
    IN  <<scanned.meta_title, scanned.meta_description>>

\* One extract_blog_sections call.
ExtractBlogSections ==
    /\ ~meta.done
    /\ \E blog_content \in BlogContents :
          LET sections == extract_blog_sections(blog_content)
          IN  meta' = [done |-> TRUE,
                       fn |-> "extract_blog_sections",
                       blog_content |-> blog_content,
                       meta_title |-> sections.meta_title,
                       meta_description |-> sections.meta_description]
    /\ UNCHANGED <<api, threads, report, writer>>
    /\ UNCHANGED engVars
    /\ UNCHANGED pipeVars

\* One extract_meta_from_blog call.
ExtractMetaFromBlog ==
    /\ ~meta.done
    /\ \E blog_content \in BlogContents :
          LET pair == extract_meta_from_blog(blog_content)
          IN  meta' = [done |-> TRUE,
                       fn |-> "extract_meta_from_blog",
                       blog_content |-> blog_content,
                       meta_title |-> pair[1],
                       meta_description |-> pair[2]]
    /\ UNCHANGED <<api, threads, report, writer>>
    /\ UNCHANGED engVars
    /\ UNCHANGED pipeVars

\* ------------------------------------------------------ POST /api/generate-blog
\* The three counters of the engine, in the order generate_blog adds to them.
counter_fields == <<"total_input_tokens", "total_output_tokens", "total_cost">>

\* key_topics.iloc[tid] raises IndexError unless -len <= tid < len.
InSheet(tid) == (0 - corpus.topics) <= tid /\ tid < corpus.topics
\* The row key_topics.iloc[tid] is, numbered from 1.
SheetRow(tid) == IF tid >= 0 THEN tid + 1 ELSE corpus.topics + tid + 1

\* The topic_id values of the requests: the first row of the key topics sheet
\* the server has loaded, its last row counted from the end, and on either side
\* the nearest number that is no row.
TopicIds == {0 - corpus.topics - 1, 0 - 1, 0, corpus.topics}

\* The body of a POST /api/generate-blog: no JSON at all, or a custom_topic
\* ("" for none) and a topic_id (<<t>>, or << >> for none).
NoBody == [data |-> FALSE, custom_topic |-> "", topic_id |-> << >>]
GenerateBlogBodies ==
    { NoBody }
    \cup { [data |-> TRUE, custom_topic |-> "Custom topic", topic_id |-> t] : t \in {<< >>, <<0>>} }
    \cup { [data |-> TRUE, custom_topic |-> "", topic_id |-> t] :
               t \in { <<i>> : i \in TopicIds } \cup {<< >>} }

\* What the collaborator answers to a request: the primary returns a complete
\* response, or both candidates raise.
RequestOutcomeSeqs ==
    { <<Return(Response("complete", <<"w", " ", "w">>, Usage(50, 2, 52)))>>,
      <<Raise("RateLimitError"), Raise("RateLimitError")>> }

\* The thread of a request that has been answered.
Answered(th, status) == [th EXCEPT !.pc = "done", !.http = status]

\* A request arrives and gets a thread of its own.  No body is answered 400; a
\* custom_topic is the topic; else a topic_id below the number of rows is
\* looked up in the sheet, which ends in the handler's except clause with 500
\* when it is too far below zero; any other body is answered 400.
ServeGenerateBlog ==
    /\ Len(threads) < MaxRequests
    /\ \E body \in GenerateBlogBodies :
          LET th == [pc |-> "test_connection", body |-> body, http |-> 0,
                     topic_data |-> [Topic |-> Unknown],
                     field |-> 1, loaded |-> 0, add |-> NewCounters,
                     result |-> [status |-> "none"]]
          IN  threads' = Append(threads,
                IF ~body.data THEN Answered(th, 400)
                ELSE IF body.custom_topic # ""
                THEN [th EXCEPT !.topic_data = [Topic |-> <<body.custom_topic>>]]
                ELSE IF body.topic_id # << >> /\ body.topic_id[1] < corpus.topics
                THEN IF InSheet(body.topic_id[1])
                     THEN [th EXCEPT !.topic_data = TopicRow(SheetRow(body.topic_id[1]))]
                     ELSE Answered(th, 500)
                ELSE Answered(th, 400))
    /\ UNCHANGED <<meta, api, report, writer>>
    /\ UNCHANGED engVars
    /\ UNCHANGED pipeVars

\* blog_generator.test_connection(): a failed test is answered 500.
ThreadTestConnection ==
    /\ \E t \in DOMAIN threads :
          /\ threads[t].pc = "test_connection"
          /\ \E outcome \in ConnectionOutcomes :
                LET c == test_connection(eng, outcome)
                IN  /\ eng' = c.counters
                    /\ threads' = [threads EXCEPT ![t] =
                                     IF c.ret THEN [@ EXCEPT !.pc = "generate_blog"]
                                     ELSE Answered(@, 500)]
    /\ UNCHANGED <<website_links, call, ncalls, cost_call>>
    /\ UNCHANGED <<meta, api, report, writer>>
    /\ UNCHANGED pipeVars

\* generate_blog up to its counters: the candidates are asked, and what the
\* call is going to add to the counters and to return is fixed.  A call that
\* adds nothing returns without touching them.
ThreadAskModels ==
    /\ \E t \in DOMAIN threads :
          /\ threads[t].pc = "generate_blog"
          /\ \E outcomes \in RequestOutcomeSeqs, sample1 \in Samples(website_links) :
             \E sample2 \in (IF BuildsResult(outcomes) THEN Samples(website_links) ELSE {<< >>}) :
                LET g == generate_blog(threads[t].topic_data, website_links,
                                       outcomes, sample1, sample2, NewCounters)
                IN  /\ ~g.ret.raised
                    /\ threads' = [threads EXCEPT ![t] =
                                     [@ EXCEPT !.pc = IF g.counters = NewCounters
                                                      THEN "respond" ELSE "load",
                                               !.add = g.counters,
                                               !.result = g.ret.result]]
    /\ UNCHANGED <<meta, api, report, writer>>
    /\ UNCHANGED engVars
    /\ UNCHANGED pipeVars

\* self.total_... += ..., first half: the counter is read.
ThreadLoad ==
    /\ \E t \in DOMAIN threads :
          /\ threads[t].pc = "load"
          /\ threads' = [threads EXCEPT ![t] =
                           [@ EXCEPT !.pc = "store",
                                     !.loaded = eng[counter_fields[threads[t].field]]]]
    /\ UNCHANGED <<meta, api, report, writer>>
    /\ UNCHANGED engVars
    /\ UNCHANGED pipeVars

\* self.total_... += ..., second half: the sum is written back.
ThreadStore ==
    /\ \E t \in DOMAIN threads :
          /\ threads[t].pc = "store"
          /\ LET f == counter_fields[threads[t].field]
             IN  /\ eng' = [eng EXCEPT ![f] = threads[t].loaded + threads[t].add[f]]
                 /\ threads' = [threads EXCEPT ![t] =
                                  IF threads[t].field < Len(counter_fields)
                                  THEN [@ EXCEPT !.pc = "load", !.field = @ + 1]
                                  ELSE [@ EXCEPT !.pc = "respond"]]
    /\ UNCHANGED <<website_links, call, ncalls, cost_call>>
    /\ UNCHANGED <<meta, api, report, writer>>
    /\ UNCHANGED pipeVars

\* The result is back in the handler: a success is appended remotely and
\* answered 200, a failure is answered 500.
ThreadRespond ==
    /\ \E t \in DOMAIN threads :
          /\ threads[t].pc = "respond"
          /\ \E remote \in AirtableOutcomes :
                LET ok == threads[t].result.status = "success"
                    w == write_blog_to_airtable(
                             airtable, threads[t].result @@ [blog_index |-> t], remote)
                IN  /\ airtable' = IF ok THEN w.table ELSE airtable
                    /\ threads' = [threads EXCEPT ![t] =
                                     Answered(@, IF ok THEN 200 ELSE 500)]
    /\ UNCHANGED <<corpus, pipe, batch, files, trace, outdir, summary, run>>
    /\ UNCHANGED <<meta, api, report, writer>>
    /\ UNCHANGED engVars

\* -------------------------------------------------- POST /api/generate-multiple
\* The 'count' of a request body: missing, or an integer.
CountMissing == [given |-> FALSE, n |-> 0]
CountGiven(n) == [given |-> TRUE, n |-> n]
RequestCounts == { CountMissing } \cup { CountGiven(n) : n \in (0 - 1)..(ApiLimit + 1) }

\* data.get('count', 3)
CountOf(c) == IF c.given THEN c.n ELSE DefaultCount

\* The 'topic_ids' of a request body: the rows of the sheet over and over, as
\* many as the sheet has rows or fewer, or MaxTopicIds of them; a row counted
\* from the end; a row that is not there.
TopicIdLists ==
    { [k \in 1..len |-> (k - 1) % corpus.topics] :
        len \in (0..corpus.topics) \cup {MaxTopicIds} }
    \cup { <<0 - 1>>, <<0, corpus.topics>> }

\* seq[:count]
SliceTo(seq, count) ==
    IF count >= 0 THEN SubSeq(seq, 1, Min(count, Len(seq)))
    ELSE SubSeq(seq, 1, Len(seq) + count)

\* The rows the request is served with: topics_to_use.
topics_to_use(count, topic_ids) ==
    IF topic_ids # << >>
    THEN [k \in DOMAIN SliceTo(topic_ids, count) |-> SheetRow(topic_ids[k])]
    ELSE [k \in 1..Min(count, corpus.topics) |-> k]

\* The request is answered with this status and body.
Responded(a, status, body) == [a EXCEPT !.pc = "responded", !.http = status, !.body = body]
\* The body of a refusal: jsonify({'error': ...}), which has no 'status'.
ErrorBody(error) == [status |-> "none", error |-> error]

\* A request arrives: more than 10 blogs are refused with 400, a topic id that
\* is not in the sheet ends in the handler's except clause with 500, else the
\* loop over topics_to_use begins.
ServeGenerateMultiple ==
    /\ api.pc = "idle"
    /\ \E c \in RequestCounts, topic_ids \in TopicIdLists :
          LET count == CountOf(c)
              a == [pc |-> "loop", count |-> count, topic_ids |-> topic_ids,
                    topics_to_use |-> << >>, results |-> << >>, total_cost |-> 0,
                    field |-> 1, loaded |-> 0, add |-> NewCounters,
                    result |-> [status |-> "none"],
                    http |-> 0, body |-> [status |-> "none"]]
          IN  api' =
                IF count > ApiLimit
                THEN Responded(a, 400, ErrorBody("Maximum 10 blogs per request"))
                ELSE IF topic_ids # << >>
                        /\ \E k \in DOMAIN SliceTo(topic_ids, count) : ~InSheet(topic_ids[k])
                THEN Responded(a, 500, ErrorBody("IndexError"))
                ELSE [a EXCEPT !.topics_to_use = topics_to_use(count, topic_ids)]
    /\ UNCHANGED <<meta, threads, report, writer>>
    /\ UNCHANGED engVars
    /\ UNCHANGED pipeVars

\* A pass of the loop begins: generate_blog asks the candidates for the next
\* topic, and what the call is going to add to the counters and to return is
\* fixed.  A call that adds nothing returns without touching them.
GenerateMultipleAsk ==
    /\ api.pc = "loop"
    /\ Len(api.results) < Len(api.topics_to_use)
    /\ \E outcomes \in RequestOutcomeSeqs, sample1 \in Samples(website_links) :
       \E sample2 \in (IF BuildsResult(outcomes) THEN Samples(website_links) ELSE {<< >>}) :
          LET g == generate_blog(TopicRow(api.topics_to_use[Len(api.results) + 1]),
                                 website_links, outcomes, sample1, sample2, NewCounters)
          IN  /\ ~g.ret.raised
              /\ api' = [api EXCEPT !.pc = IF g.counters = NewCounters THEN "post" ELSE "load",
                                    !.field = 1,
                                    !.add = g.counters,
                                    !.result = g.ret.result]
    /\ UNCHANGED <<meta, threads, report, writer>>
    /\ UNCHANGED engVars
    /\ UNCHANGED pipeVars

\* self.total_... += ... inside the pass, first half: the counter is read.
GenerateMultipleLoad ==
    /\ api.pc = "load"
    /\ api' = [api EXCEPT !.pc = "store", !.loaded = eng[counter_fields[api.field]]]
    /\ UNCHANGED <<meta, threads, report, writer>>
    /\ UNCHANGED engVars
    /\ UNCHANGED pipeVars

\* self.total_... += ... inside the pass, second half: the sum is written back.
GenerateMultipleStore ==
    /\ api.pc = "store"
    /\ LET f == counter_fields[api.field]
       IN  /\ eng' = [eng EXCEPT ![f] = api.loaded + api.add[f]]
           /\ api' = IF api.field < Len(counter_fields)
                     THEN [api EXCEPT !.pc = "load", !.field = @ + 1]
                     ELSE [api EXCEPT !.pc = "post"]
    /\ UNCHANGED <<website_links, call, ncalls, cost_call>>
    /\ UNCHANGED <<meta, threads, report, writer>>
    /\ UNCHANGED pipeVars

\* The pass ends: a success is appended remotely, whatever the remote says,
\* and its cost added; the entry of the result is appended to results.
GenerateMultiplePost ==
    /\ api.pc = "post"
    /\ LET i == Len(api.results)
           result == api.result
           ok == result.status = "success"
       IN  \E remote \in (IF ok THEN AirtableOutcomes ELSE {"200"}) :
              LET w == write_blog_to_airtable(airtable, result @@ [blog_index |-> i + 1], remote)
              IN  /\ airtable' = IF ok THEN w.table ELSE airtable
                  /\ api' = [api EXCEPT
                               !.pc = "loop",
                               !.total_cost = IF ok THEN @ + result.cost ELSE @,
                               !.results = Append(@, [index |-> i + 1,
                                                      topic |-> result.topic,
                                                      status |-> result.status,
                                                      cost |-> result.cost,
                                                      tokens |-> result.total_tokens])]
    /\ UNCHANGED <<corpus, pipe, batch, files, trace, outdir, summary, run>>
    /\ UNCHANGED <<meta, threads, report, writer>>
    /\ UNCHANGED engVars

\* The loop is over: the 'completed' response with its summary.
GenerateMultipleRespond ==
    /\ api.pc = "loop"
    /\ Len(api.results) >= Len(api.topics_to_use)
    /\ LET successful == Len(WithStatus(api.results, "success"))
       IN  \E up1 \in Ties(api.total_cost, 1), up2 \in Ties(api.total_cost, successful) :
              api' = Responded(api, 200,
                    [status |-> "completed",
                     summary |-> [total_requested |-> api.count,
                                  successful |-> successful,
                                  failed |-> api.count - successful,
                                  total_cost |-> Round4(api.total_cost, 1, up1),
                                  average_cost |-> IF successful > 0
                                                   THEN Round4(api.total_cost, successful, up2)
                                                   ELSE 0],
                     results |-> api.results])
    /\ UNCHANGED <<meta, threads, report, writer>>
    /\ UNCHANGED engVars
    /\ UNCHANGED pipeVars

\* ------------------------------------------------ manager_report.py
\* A number as a report file spells it: a sequence of characters; << >> is a
\* field whose regular expression finds no match.
Absent == << >>
DigitOf == [c \in {"0", "1", "2", "3", "4", "5", "6", "7", "8", "9"} |->
               CASE c = "0" -> 0 [] c = "1" -> 1 [] c = "2" -> 2 [] c = "3" -> 3
                 [] c = "4" -> 4 [] c = "5" -> 5 [] c = "6" -> 6 [] c = "7" -> 7
                 [] c = "8" -> 8 [] c = "9" -> 9]

RECURSIVE ToInt(_)
ToInt(digits) ==
    IF digits = << >> THEN 0
    ELSE ToInt(SubSeq(digits, 1, Len(digits) - 1)) * 10 + DigitOf[digits[Len(digits)]]

\* int(text.replace(',', '')): ValueError when no digit is left.
ParseTokens(text) ==
    LET digits == SelectSeq(text, LAMBDA c : c # ",")
    IN  IF digits = << >> THEN [raised |-> "ValueError", value |-> 0]
        ELSE [raised |-> "", value |-> ToInt(digits)]

RECURSIVE Pow10(_)
Pow10(n) == IF n = 0 THEN 1 ELSE 10 * Pow10(n - 1)

\* Money of the report: the decimal num / 10^scale USD.
Decimal(num, scale) == [num |-> num, scale |-> scale]
AddDecimal(a, b) ==
    LET scale == IF a.scale > b.scale THEN a.scale ELSE b.scale
    IN  Decimal(a.num * Pow10(scale - a.scale) + b.num * Pow10(scale - b.scale), scale)

\* float(text) of a match of [\d.]+: the decimal the text spells, ValueError
\* when the text has no digit or more than one point.
ParseCost(text) ==
    LET points == { k \in DOMAIN text : text[k] = "." }
        p == IF points = {} THEN Len(text) + 1 ELSE CHOOSE k \in points : TRUE
        whole == SubSeq(text, 1, p - 1)
        frac == SubSeq(text, p + 1, Len(text))
    IN  IF Cardinality(points) > 1 \/ Len(text) = Cardinality(points)
        THEN [raised |-> "ValueError", value |-> Decimal(0, 0)]
        ELSE [raised |-> "", value |-> Decimal(ToInt(whole \o frac), Len(frac))]

\* What the report reads in one blog_*.txt file: whether a Topic line is there,
\* and the texts after Input Tokens, Output Tokens, Cost, Word Count, Model Used.
ReportFiles ==
    [topic : BOOLEAN,
     input_tokens : {Absent, <<"0">>, <<"1", ",", "2", "0", "0">>, <<",">>},
     output_tokens : {Absent, <<"0">>, <<"5", "0">>},
     cost : {Absent, <<"0", ".", "0", "0", "0", "3">>, <<"0", ".", "0", "0", "0", "3", "5">>,
             <<".">>},
     word_count : {Absent, <<"7">>},
     model : {"", "gpt-4o"}]

\* The blog_*.txt files of generated_blogs/ in the order of their names.
ReportFileSeqs == UNION { [1..n -> ReportFiles] : n \in 0..MaxReportFiles }

\* if all([topic_match, input_tokens_match, output_tokens_match, cost_match])
AllFieldsMatch(file) ==
    /\ file.topic
    /\ file.input_tokens # Absent
    /\ file.output_tokens # Absent
    /\ file.cost # Absent

\* The loop over the files: the totals and blog_data after the first k files,
\* or the ValueError of a number that does not parse.
RECURSIVE AnalyzeBlogs(_, _)
AnalyzeBlogs(blog_files, k) ==
    IF k = 0
    THEN [raised |-> "", total_input_tokens |-> 0, total_output_tokens |-> 0,
          total_cost |-> Decimal(0, 0), blog_data |-> << >>]
    ELSE LET before == AnalyzeBlogs(blog_files, k - 1)
             file == blog_files[k]
             input_tokens == ParseTokens(file.input_tokens)
             output_tokens == ParseTokens(file.output_tokens)
             cost == ParseCost(file.cost)
         IN  IF before.raised # "" \/ ~AllFieldsMatch(file) THEN before
             ELSE IF input_tokens.raised # "" \/ output_tokens.raised # "" \/ cost.raised # ""
             THEN [before EXCEPT !.raised = "ValueError"]
             ELSE [before EXCEPT
                     !.total_input_tokens = @ + input_tokens.value,
                     !.total_output_tokens = @ + output_tokens.value,
                     !.total_cost = AddDecimal(@, cost.value),
                     !.blog_data = Append(@,
                         [input_tokens |-> input_tokens.value,
                          output_tokens |-> output_tokens.value,
                          total_tokens |-> input_tokens.value + output_tokens.value,
                          cost |-> cost.value,
                          word_count |-> IF file.word_count # Absent
                                         THEN ToInt(file.word_count) ELSE 0,
                          model |-> IF file.model # "" THEN file.model ELSE "Unknown"])]

\* A quotient a / b of the report, kept exact; b # 0.
Quotient(a, b) == [num |-> a, den |-> b]
NoQuotient == [num |-> 0, den |-> 0]

\* What a run of create_manager_report leaves: the exception it raised ("" for
\* none), whether it returned before analysing, the figures it computed and
\* whether MANAGER_REPORT.txt was written.
NoFigures ==
    [raised |-> "", early |-> FALSE, blog_count |-> 0, total_tokens |-> 0,
     total_cost |-> Decimal(0, 0), avg_cost_per_blog |-> NoQuotient, model |-> "",
     cost_per_1000_tokens |-> NoQuotient, written |-> FALSE,
     tokens_per_blog |-> NoQuotient]

create_manager_report(folder_exists, blog_files, pd_bound) ==
    LET a == AnalyzeBlogs(blog_files, Len(blog_files))
        blog_count == Len(a.blog_data)
        total_tokens == a.total_input_tokens + a.total_output_tokens
        summary_ == [NoFigures EXCEPT
                       !.blog_count = blog_count,
                       !.total_tokens = total_tokens,
                       !.total_cost = a.total_cost,
                       !.avg_cost_per_blog = IF blog_count > 0
                                             THEN Quotient(a.total_cost.num,
                                                           blog_count * Pow10(a.total_cost.scale))
                                             ELSE Quotient(0, 1)]
        per_1000 == Quotient(a.total_cost.num * 1000,
                             total_tokens * Pow10(a.total_cost.scale))
        shown == [summary_ EXCEPT
                       !.model = IF a.blog_data # << >> THEN a.blog_data[1].model
                                 ELSE "Unknown"]
    IN  IF ~folder_exists \/ blog_files = << >> THEN [NoFigures EXCEPT !.early = TRUE]
        ELSE IF a.raised # "" THEN [NoFigures EXCEPT !.raised = a.raised]
        ELSE IF ~pd_bound THEN [summary_ EXCEPT !.raised = "NameError"]
        ELSE IF total_tokens = 0 THEN [shown EXCEPT !.raised = "ZeroDivisionError"]
        ELSE IF blog_count = 0
        THEN [shown EXCEPT !.cost_per_1000_tokens = per_1000,
                           !.written = TRUE,
                           !.raised = "ZeroDivisionError"]
        ELSE [shown EXCEPT !.cost_per_1000_tokens = per_1000,
                           !.written = TRUE,
                           !.tokens_per_blog = Quotient(total_tokens, blog_count)]

\* One run of the report over a generated_blogs/ folder that is there or not,
\* with the name pd bound (the file run as a script) or not (the function
\* called from an importing module).
CreateManagerReport ==
    /\ ~report.done
    /\ \E folder_exists \in BOOLEAN, blog_files \in ReportFileSeqs, pd_bound \in BOOLEAN :
          report' = [done |-> TRUE, folder_exists |-> folder_exists,
                     blog_files |-> blog_files, pd_bound |-> pd_bound,
                     out |-> create_manager_report(folder_exists, blog_files, pd_bound)]
    /\ UNCHANGED <<meta, api, threads, writer>>
    /\ UNCHANGED engVars
    /\ UNCHANGED pipeVars

\* ------------------------------------------------------------- Airtable tools
\* The results a caller hands to write_multiple_blogs.
WriterResults ==
    { [topic |-> <<"Topic", i>>, status |-> st, blog_index |-> i] :
        i \in 1..MaxBatchResults, st \in {"success", "failed"} }
WriterResultSeqs == UNION { [1..n -> WriterResults] : n \in 0..MaxBatchResults }

\* write_multiple_blogs over the first k results: each success is handed to
\* write_blog_to_airtable and counted when that returns True; a failed result
\* is skipped.  outcomes[j] is what the remote does with result j.
RECURSIVE write_multiple_blogs(_, _, _, _)
write_multiple_blogs(table, blog_results, outcomes, k) ==
    IF k = 0 THEN [table |-> table, ret |-> 0]
    ELSE LET before == write_multiple_blogs(table, blog_results, outcomes, k - 1)
             w == write_blog_to_airtable(before.table, blog_results[k], outcomes[k])
         IN  IF blog_results[k].status # "success" THEN before
             ELSE [table |-> w.table, ret |-> before.ret + (IF w.ret THEN 1 ELSE 0)]

\* One call of AirtableBlogWriter.write_multiple_blogs.
WriteMultipleBlogs ==
    /\ ~writer.done
    /\ \E blog_results \in WriterResultSeqs :
       \E outcomes \in [DOMAIN blog_results ->
                          AirtableOutcomes] :
          /\ \A k \in DOMAIN blog_results :
                 blog_results[k].status # "success" => outcomes[k] = "200"
          /\ LET w == write_multiple_blogs(airtable, blog_results, outcomes, Len(blog_results))
             IN  /\ airtable' = w.table
                 /\ writer' = [done |-> TRUE, tool |-> "write_multiple_blogs",
                               blog_results |-> blog_results, ret |-> w.ret]
    /\ UNCHANGED <<corpus, pipe, batch, files, trace, outdir, summary, run>>
    /\ UNCHANGED <<meta, api, threads, report>>
    /\ UNCHANGED engVars

\* What the remote does with a request of test_airtable_simple.
RemoteAnswers == {"200", "422", "ConnectionError"}

\* test_airtable_simple: without credentials False; else the table is read,
\* a test record is posted and, once created, deleted again.  True is returned
\* when the record was created, whether or not the delete was accepted; an
\* exception of any request is caught and False returned.
test_airtable_simple(table, credentials, get, post, delete) ==
    LET created == Append(table, [Name |-> <<"Test Blog Entry">>, blog_index |-> 0])
    IN  IF ~credentials \/ get # "200" \/ post # "200" THEN [table |-> table, ret |-> FALSE]
        ELSE IF delete = "200" THEN [table |-> table, ret |-> TRUE]
        ELSE [table |-> created, ret |-> delete # "ConnectionError"]

\* One run of test_airtable_simple.
TestAirtableSimple ==
    /\ ~writer.done
    /\ \E credentials \in BOOLEAN, get \in RemoteAnswers :
       \E post \in (IF credentials /\ get = "200" THEN RemoteAnswers ELSE {"200"}) :
       \E delete \in (IF credentials /\ get = "200" /\ post = "200"
                       THEN RemoteAnswers ELSE {"200"}) :
          LET t == test_airtable_simple(airtable, credentials, get, post, delete)
          IN  /\ airtable' = t.table
              /\ writer' = [done |-> TRUE, tool |-> "test_airtable_simple",
                            blog_results |-> << >>, ret |-> t.ret]
    /\ UNCHANGED <<corpus, pipe, batch, files, trace, outdir, summary, run>>
    /\ UNCHANGED <<meta, api, threads, report>>
    /\ UNCHANGED engVars

\* -------------------------------------------------------------- specifications
EngineInit ==
    /\ eng = NewCounters
    /\ call = NoCall
    /\ ncalls = 0
    /\ cost_call = NoCostCall

PipelineInit ==
    /\ pipe = NewPipeline
    /\ batch = NoBatch
    /\ files = << >>
    /\ airtable = << >>
    /\ trace = << >>
    /\ summary = NoSummary
    /\ run = NoRun

\* No tool and no request of the web API has run.
SideInit ==
    /\ meta = NoMeta
    /\ api = NoApi
    /\ threads = NoThreads
    /\ report = NoReport
    /\ writer = NoWriter

\* The engine serving generate_blog calls, for every size of the link collection.
Init ==
    /\ website_links \in LinkSheets
    /\ corpus = NoWorkbook
    /\ outdir = FALSE
    /\ EngineInit
    /\ PipelineInit
    /\ SideInit

Next == GenerateBlog \/ DiscardResult

Spec == Init /\ [][Next]_vars

\* calculate_cost called on its own and from generate_blog, with one link.
InitCost ==
    /\ website_links = SubSeq(LinkPool, 1, 1)
    /\ corpus = NoWorkbook
    /\ outdir = FALSE
    /\ EngineInit
    /\ PipelineInit
    /\ SideInit

NextCost == CalculateCost \/ GenerateBlog \/ DiscardResult

SpecCost == InitCost /\ [][NextCost]_vars

\* A freshly constructed pipeline over each workbook, with one link.
InitPipeline ==
    /\ website_links = SubSeq(LinkPool, 1, 1)
    /\ corpus \in Workbooks
    /\ outdir = FALSE
    /\ EngineInit
    /\ PipelineInit
    /\ SideInit

NextPipeline == LoadData \/ GenerateBlogsStart \/ GenerateBlogsStep \/ GenerateBlogsReturn

SpecPipeline == InitPipeline /\ [][NextPipeline]_vars

\* run_complete_pipeline on a freshly constructed pipeline over each workbook,
\* with one link, the directory generated_blogs/ being there or not.
InitRun ==
    /\ website_links = SubSeq(LinkPool, 1, 1)
    /\ corpus \in Workbooks
    /\ outdir \in BOOLEAN
    /\ EngineInit
    /\ PipelineInit
    /\ SideInit

NextRun ==
    \/ RunCompletePipeline
    \/ RunLoadData
    \/ RunTestConnections
    \/ RunGenerateBlogs
    \/ GenerateBlogsStep
    \/ GenerateBlogsReturn
    \/ RunGenerateBlogsRaised
    \/ RunSaveEnhancedSummary

SpecRun == InitRun /\ [][NextRun]_vars

\* One pipeline serving generate_blogs calls one after the other, over a
\* workbook of fewer than MaxBatchResults topics, with one link.
InitBatches ==
    /\ website_links = SubSeq(LinkPool, 1, 1)
    /\ corpus \in { Workbook(TRUE, Range(expected_sheets), t) : t \in 0..(MaxBatchResults - 1) }
    /\ outdir = FALSE
    /\ EngineInit
    /\ PipelineInit
    /\ SideInit

NextBatches ==
    \/ LoadData
    \/ GenerateBlogsStart
    \/ GenerateBlogsAgain
    \/ GenerateBlogsStep
    \/ GenerateBlogsReturn

SpecBatches == InitBatches /\ [][NextBatches]_vars

\* The two meta extractors applied to blog contents.
InitMeta ==
    /\ website_links = SubSeq(LinkPool, 1, 1)
    /\ corpus = NoWorkbook
    /\ outdir = FALSE
    /\ EngineInit
    /\ PipelineInit
    /\ SideInit

NextMeta == ExtractBlogSections \/ ExtractMetaFromBlog

SpecMeta == InitMeta /\ [][NextMeta]_vars

\* The web server with its one engine, serving /api/generate-blog requests in
\* threads, over a key topics sheet of one row and one link.
InitRequests ==
    /\ website_links = SubSeq(LinkPool, 1, 1)
    /\ corpus = Workbook(TRUE, Range(expected_sheets), 1)
    /\ outdir = FALSE
    /\ EngineInit
    /\ PipelineInit
    /\ SideInit

NextRequests ==
    \/ ServeGenerateBlog
    \/ ThreadTestConnection
    \/ ThreadAskModels
    \/ ThreadLoad
    \/ ThreadStore
    \/ ThreadRespond

SpecRequests == InitRequests /\ [][NextRequests]_vars

\* The web server serving one /api/generate-multiple request, over a key topics
\* sheet of two rows and one link.
InitMultiple ==
    /\ website_links = SubSeq(LinkPool, 1, 1)
    /\ corpus = Workbook(TRUE, Range(expected_sheets), 2)
    /\ outdir = FALSE
    /\ EngineInit
    /\ PipelineInit
    /\ SideInit

NextMultiple ==
    \/ ServeGenerateMultiple
    \/ GenerateMultipleAsk
    \/ GenerateMultipleLoad
    \/ GenerateMultipleStore
    \/ GenerateMultiplePost
    \/ GenerateMultipleRespond

SpecMultiple == InitMultiple /\ [][NextMultiple]_vars

\* The manager report run once over a folder of blog files.
InitReport ==
    /\ website_links = SubSeq(LinkPool, 1, 1)
    /\ corpus = NoWorkbook
    /\ outdir = FALSE
    /\ EngineInit
    /\ PipelineInit
    /\ SideInit

NextReport == CreateManagerReport

SpecReport == InitReport /\ [][NextReport]_vars

\* The web server serving requests of both kinds in threads on its one engine.
NextServer == NextRequests \/ NextMultiple

SpecServer == InitMultiple /\ [][NextServer]_vars

\* The Airtable tools called on a table by themselves.
InitAirtable ==
    /\ website_links = SubSeq(LinkPool, 1, 1)
    /\ corpus = NoWorkbook
    /\ outdir = FALSE
    /\ EngineInit
    /\ PipelineInit
    /\ SideInit

NextAirtable == WriteMultipleBlogs \/ TestAirtableSimple

SpecAirtable == InitAirtable /\ [][NextAirtable]_vars

\* ------------------------------------------------------------------ claims
\* The result dictionary of the call on record (when it returned one).
Result == call.ret.result
CallReturned == call.done /\ ~call.ret.raised
CallSucceeded == CallReturned /\ Result.status = "success"
CallFailed == CallReturned /\ Result.status = "failed"

\* The candidates that returned a response in the call on record, in order.
ReturnedAt == { i \in DOMAIN call.outcomes : call.outcomes[i].kind = "return" }
\* The response of the call on record is one the collaborator's interface
\* allows: a non-empty content string, with or without usage.
InterfaceResponse(i) ==
    /\ call.outcomes[i].response.shape \in {"no_usage", "complete"}
    /\ call.outcomes[i].response.content # << >>

\* C1: generate_blog never raises to its caller; whatever the candidates do and
\* whatever shape the response has, it returns a result whose status is
\* 'success' or 'failed'.
C1_NeverRaises ==
    call.done =>
        /\ ~call.ret.raised
        /\ call.ret.result.status \in {"success", "failed"}

\* C1's case: a candidate returned a mapping without choices, so a KeyError was
\* raised inside the try block, and the call returned a failed result.
C1_Witness ==
    /\ CallFailed
    /\ Result.error = ErrChoices
    /\ Len(call.invoked) = 2

\* C2: the candidates are invoked in the order gpt-4o, gpt-3.5-turbo, each at
\* most once, none after an earlier one has returned; and when a candidate
\* returned a response, the result is a success whose model_used is the first
\* candidate that returned.
C2_FirstSuccessfulModelServes ==
    call.done =>
        /\ Len(call.invoked) <= Len(models_to_try)
        /\ call.invoked = SubSeq(models_to_try, 1, Len(call.invoked))
        /\ \A i \in DOMAIN call.invoked : i < Len(call.invoked) => i \notin ReturnedAt
        /\ \A i \in ReturnedAt :
              InterfaceResponse(i) =>
                  /\ CallSucceeded
                  /\ Result.model_used = models_to_try[i]

\* C3: when every candidate raised, the result is failed and its error is the
\* error the last attempted candidate raised.
C3_LastCandidateError ==
    (call.done /\ ReturnedAt = {}) =>
        /\ CallFailed
        /\ Result.error = call.outcomes[Len(call.outcomes)].error

\* C4: a failed result has cost 0, all three token counts 0 and content '';
\* and a result has an error field exactly when its status is 'failed'.
C4_FailedResultIsZeroed ==
    CallReturned =>
        /\ Result.status = "failed" =>
              /\ Result.cost = 0
              /\ Result.input_tokens = 0
              /\ Result.output_tokens = 0
              /\ Result.total_tokens = 0
              /\ Result.content = << >>
        /\ ("error" \in DOMAIN Result) <=> (Result.status = "failed")

\* C4's case: the call failed after a candidate had responded and its usage had
\* been counted, and the failed result still reports no tokens.
C4_Witness ==
    /\ CallFailed
    /\ Result.error = ErrSplit
    /\ eng.total_input_tokens > call.before.total_input_tokens

\* C5: a success result's total_tokens is input_tokens + output_tokens, for
\* every usage block the collaborator reports.
C5_TotalIsSum ==
    (CallSucceeded /\ Result.content # << >>) => Result.total_tokens = Result.input_tokens + Result.output_tokens

\* C6: a result is a success if and only if its content is non-empty.
C6_SuccessIffContent ==
    CallReturned => ((Result.status = "success") <=> (Result.content # << >>))

\* C7: a response that carries content but no usage yields a success result.
C7_MissingUsageIsLegal ==
    (call.done /\ \E i \in ReturnedAt :
                      /\ call.outcomes[i].response.shape = "no_usage"
                      /\ call.outcomes[i].response.content # << >>)
        => CallSucceeded

\* C9: links_used of a success result is exactly the set of link names that
\* were rendered into the prompt of that call.
C9_LinksUsedArePromptLinks ==
    (CallSucceeded /\ Result.content # << >>) => Range(Result.links_used) = Range(call.prompt_links)

\* C8: calculate_cost returns input_tokens * input_rate + output_tokens *
\* output_rate, unrounded, at the rates of the given model, or of gpt-4o when
\* the model is not in the pricing table (50 input and 2 output tokens on
\* gpt-4o cost 0.00028 USD, 2800 units); the cost of a success result is that
\* value for the model that served it, and is what the call adds to total_cost.
C8_CostIsUnrounded ==
    LET InputRate(m) == IF m = "gpt-3.5-turbo" THEN 5 ELSE 50
        OutputRate(m) == IF m = "gpt-3.5-turbo" THEN 15 ELSE 150
    IN  /\ cost_call.done =>
              cost_call.ret = cost_call.input_tokens * InputRate(cost_call.model)
                              + cost_call.output_tokens * OutputRate(cost_call.model)
        /\ (cost_call.done /\ cost_call.input_tokens = 50 /\ cost_call.output_tokens = 2
                /\ cost_call.model = "gpt-4o") => cost_call.ret = 2800
        /\ CallSucceeded =>
              /\ Result.cost = Result.input_tokens * InputRate(Result.model_used)
                               + Result.output_tokens * OutputRate(Result.model_used)
              /\ eng.total_cost = call.before.total_cost + Result.cost

\* C8's case: calculate_cost was called for a model outside the pricing table
\* with 50 and 2 tokens, and a blog served by the fallback model was costed.
C8_Witness ==
    /\ cost_call.done
    /\ cost_call.model \notin DOMAIN pricing
    /\ cost_call.input_tokens = 50
    /\ cost_call.output_tokens = 2
    /\ CallSucceeded
    /\ Result.model_used = "gpt-3.5-turbo"
    /\ Result.input_tokens = 50
    /\ Result.cost = 280

\* C10: generate_blogs(num_blogs=None) on a loaded corpus of M topics invokes
\* generate_blog exactly once for each topic and returns M results.
C10_NoneProcessesEveryTopic ==
    (batch.pc = "returned" /\ ~batch.arg.given /\ pipe.load_ret = "True") =>
        /\ Len(batch.ret) = corpus.topics
        /\ \A t \in 1..corpus.topics :
              Cardinality({ k \in DOMAIN trace : trace[k] = <<"generate", t>> }) = 1

\* generate_blogs(N) was called on a loaded corpus of fewer than N topics.
MoreAskedThanLoaded ==
    /\ batch.pc # "idle"
    /\ batch.arg.given
    /\ pipe.load_ret = "True"
    /\ batch.arg.n > corpus.topics

\* C11: generate_blogs(N) on a fresh pipeline whose corpus has M < N topics
\* produces exactly M results without error: the call is not left by an
\* exception, and what it returns has M results, the i-th for the i-th topic
\* of the corpus and tagged blog_index i.
C11_ClampedToCorpus ==
    MoreAskedThanLoaded =>
        /\ Len(pipe.results) <= corpus.topics
        /\ batch.pc # "raised"
        /\ batch.pc = "returned" =>
              /\ Len(batch.ret) = corpus.topics
              /\ \A k \in DOMAIN batch.ret :
                    /\ batch.ret[k].topic = TopicName(TopicRow(k))
                    /\ batch.ret[k].blog_index = k

\* The running totals of the pipeline.
Totals(p) == <<p.total_input_tokens, p.total_output_tokens, p.total_cost>>

\* A step in which a sink is invoked or written, or the running totals change.
SinkOrTotalsTouched ==
    \/ files' # files
    \/ airtable' # airtable
    \/ Totals(pipe') # Totals(pipe)
    \/ \E k \in DOMAIN trace' : k > Len(trace) /\ trace'[k][1] \in {"file", "airtable"}

\* What a step of generate_blogs may do, by the status of the result it appends.
OnlySuccessCountedAndWritten ==
    LET n == Len(pipe.results)
    IN  /\ SinkOrTotalsTouched =>
              /\ Len(pipe'.results) = n + 1
              /\ pipe'.results[n + 1].status = "success"
        /\ (Len(pipe'.results) = n + 1 /\ pipe'.results[n + 1].status = "failed") =>
              /\ SubSeq(pipe'.results, 1, n) = pipe.results
              /\ files' = files
              /\ airtable' = airtable
              /\ Totals(pipe') = Totals(pipe)
              /\ trace' = Append(trace, <<"generate", n + 1>>)

\* C12: in generate_blogs a result is added to the running totals and handed
\* to the file sink and the remote sink only if its status is 'success'; a
\* failed result is appended to the result list, is written to no sink and
\* leaves the running totals as they were.
C12_OnlySuccessCountedAndWrittenStep == [][OnlySuccessCountedAndWritten]_vars

\* C12's case: the first topic failed and the second succeeded; only the second
\* is in the file sink, in the remote sink and in the totals.
C12_Witness ==
    /\ Len(pipe.results) = 2
    /\ pipe.results[1].status = "failed"
    /\ pipe.results[2].status = "success"
    /\ files = <<2>>
    /\ Len(airtable) = 1
    /\ airtable[1].blog_index = 2
    /\ Totals(pipe) = <<50, 2, 2800>>

\* The place of an event within the handling of one topic.
Rank(kind) == CASE kind = "generate" -> 1 [] kind = "file" -> 2 [] kind = "airtable" -> 3

\* Event e comes before event f in the order topic by topic, and within a topic
\* generation, file report, remote append.
Before(e, f) == e[2] < f[2] \/ (e[2] = f[2] /\ Rank(e[1]) < Rank(f[1]))

\* C13: during generate_blogs the results are appended and the sinks invoked in
\* strict topic order; for a successful topic the file report is written
\* before the remote append of that topic, after its generation; and the
\* generation of topic i+1 starts only after the generation and every sink
\* write of topic i.
C13_StrictTopicOrder ==
    /\ \A j, k \in DOMAIN trace : j < k => Before(trace[j], trace[k])
    /\ \A k \in DOMAIN trace :
          /\ trace[k][1] = "file" => k > 1 /\ trace[k - 1] = <<"generate", trace[k][2]>>
          /\ trace[k][1] = "airtable" => k > 1 /\ trace[k - 1] = <<"file", trace[k][2]>>
    /\ \A k \in DOMAIN pipe.results : pipe.results[k].blog_index = k
    /\ \A j, k \in DOMAIN files : j < k => files[j] < files[k]
    /\ \A j, k \in DOMAIN airtable : j < k => airtable[j].blog_index < airtable[k].blog_index

\* C13's case: two successful topics in a row, each generated, written to its
\* file and appended remotely, and a third topic generated after them.
C13_Witness ==
    /\ Len(trace) >= 7
    /\ SubSeq(trace, 1, 7) = <<<<"generate", 1>>, <<"file", 1>>, <<"airtable", 1>>,
                               <<"generate", 2>>, <<"file", 2>>, <<"airtable", 2>>,
                               <<"generate", 3>>>>
    /\ files = <<1, 2>>

\* The sum of a numeric field over the results whose status is 'success'.
RECURSIVE SuccessSum(_, _)
SuccessSum(results, field) ==
    IF results = << >> THEN 0
    ELSE (IF Head(results).status = "success" THEN Head(results)[field] ELSE 0)
         + SuccessSum(Tail(results), field)

\* The topics whose remote append reported failure in this generate_blogs call.
RemoteFailures == { e[1] : e \in { r \in Range(batch.remote_rets) : ~r[2] } }

\* C14: a remote append that fails (a non-200 response, an exception of the
\* transport, missing credentials) returns False and raises nothing: every
\* append that was called returned a value; after a failed one generate_blogs is still in its loop or has returned, the
\* topic's result is in the list as a success, and the running totals still
\* are the sums over the successful results, that one included.
C14_RemoteFailureIsSwallowed ==
    batch.pc # "idle" =>
        /\ \A k \in DOMAIN trace :
              trace[k][1] = "airtable" =>
                  \E e \in Range(batch.remote_rets) : e[1] = trace[k][2]
        /\ \A t \in RemoteFailures :
              /\ t \in DOMAIN pipe.results
              /\ pipe.results[t].status = "success"
              /\ batch.i = t => batch.pc \in {"loop", "returned"}
              /\ pipe.total_input_tokens = SuccessSum(pipe.results, "input_tokens")
              /\ pipe.total_output_tokens = SuccessSum(pipe.results, "output_tokens")
              /\ pipe.total_cost = SuccessSum(pipe.results, "cost")

\* C14's case: the remote append of the first topic failed, the second topic
\* was generated and stored remotely, and the totals count both.
C14_Witness ==
    /\ batch.pc = "returned"
    /\ RemoteFailures = {1}
    /\ Len(batch.ret) = 2
    /\ batch.ret[1].status = "success"
    /\ batch.ret[2].status = "success"
    /\ files = <<1, 2>>
    /\ Len(airtable) = 1
    /\ airtable[1].blog_index = 2
    /\ Totals(pipe) = <<100, 4, 5600>>

\* The topics whose report file generate_blogs tried to write and could not.
FileFailures ==
    { trace[k][2] : k \in { j \in DOMAIN trace : trace[j][1] = "file" } } \ Range(files)

\* C15: a report file that cannot be written for a successful topic does not
\* end generate_blogs: the call stays in its loop or returns the result list,
\* with that topic recorded as a success.
C15_FileFailureIsSwallowed ==
    \A t \in FileFailures :
        /\ batch.pc \in {"loop", "returned"}
        /\ t \in DOMAIN pipe.results
        /\ pipe.results[t].status = "success"

\* The corpus file is missing, or one of the four expected sheets is not in it.
CorpusIncomplete == ~corpus.exists \/ corpus.sheets # Range(expected_sheets)

\* C16: when the corpus file is missing or any of the four expected categories
\* is absent from it, run_complete_pipeline returns False: it raises nothing,
\* and makes no generation call and no sink write.
C16_IncompleteCorpusReturnsFalse ==
    (CorpusIncomplete /\ run.pc # "idle") =>
        /\ run.pc \in {"load_data", "returned"}
        /\ run.pc = "returned" => run.ret = FALSE
        /\ batch.pc = "idle"
        /\ trace = << >>
        /\ pipe.results = << >>
        /\ files = << >>
        /\ airtable = << >>

\* run_complete_pipeline is over: it returned, or an exception left it.
RunOver == run.pc \in {"returned", "raised"}

\* C17: a run of the pipeline on a corpus with zero topics raises nothing and
\* produces a run summary whose average_cost_per_blog is 0 and whose
\* cost_per_1k_tokens is 0.
C17_ZeroTopicsSummary ==
    (RunOver /\ pipe.load_ret = "True" /\ corpus.topics = 0 /\ batch.pc # "idle") =>
        /\ run.pc = "returned"
        /\ summary.written
        /\ summary.generation_summary.average_cost_per_blog = 0
        /\ summary.generation_summary.cost_per_1k_tokens = 0

\* C18: whenever load_data succeeded, the run ends with the final run summary
\* built and written by save_enhanced_summary, even if every individual
\* generation failed.  Stated for the runs in which generate_blogs came back
\* with at least one result.
C18_SummaryAfterLoad ==
    (RunOver /\ pipe.load_ret = "True" /\ batch.pc = "returned" /\ pipe.results # << >>)
        => summary.written

\* C19: for a pipeline whose engine serves only that pipeline's batch calls,
\* after every processed topic the engine's lifetime counters equal the
\* pipeline's own running totals.
C19_EngineTotalsMatchPipeline ==
    batch.pc # "idle" =>
        /\ eng.total_input_tokens = pipe.total_input_tokens
        /\ eng.total_output_tokens = pipe.total_output_tokens
        /\ eng.total_cost = pipe.total_cost

\* What the connection-testing step of a run may do to the engine.
TestConnectionKeepsCounters ==
    run.pc = "test_connections" =>
        /\ eng' = eng
        /\ run'.pc = "generate_blogs" => eng' = NewCounters

\* C20: BlogGenerator.test_connection leaves total_input_tokens,
\* total_output_tokens and total_cost of the engine as they were, whether the
\* connectivity call returns or raises; so a run that tests its connections
\* first starts generating with the counters at their constructed values.
C20_TestConnectionKeepsCountersStep == [][TestConnectionKeepsCounters]_vars

\* C20's case: the connections were tested, the connectivity call returned, and
\* the run is about to enter generate_blogs.
C20_Witness ==
    /\ run.pc = "generate_blogs"
    /\ pipe.load_ret = "True"
    /\ batch.pc = "idle"
    /\ eng = NewCounters

\* What a step does to the running totals of the pipeline: none gets smaller.
TotalsDoNotDecrease ==
    /\ pipe'.total_input_tokens >= pipe.total_input_tokens
    /\ pipe'.total_output_tokens >= pipe.total_output_tokens
    /\ pipe'.total_cost >= pipe.total_cost

\* C21: within one generate_blogs run, total_input_tokens, total_output_tokens
\* and total_cost of the pipeline never decrease from one processed topic to
\* the next.
C21_TotalsNeverDecreaseStep == [][TotalsDoNotDecrease]_vars

\* C21's case: a success, then a failure that left the totals, then a second
\* success that raised them.
C21_Witness ==
    /\ batch.pc = "loop"
    /\ Len(pipe.results) = 3
    /\ pipe.results[1].status = "success"
    /\ pipe.results[2].status = "failed"
    /\ pipe.results[3].status = "success"
    /\ Totals(pipe) = <<100, 4, 5600>>

\* C22: for a link collection of size k, links_used of a successful result has
\* length min(3, k), holds no link of the collection twice, and every name in
\* it is the name of a link of the collection.
C22_LinksUsedAreASample ==
    CallSucceeded =>
        /\ Len(Result.links_used) = Min(3, Len(website_links))
        /\ \A i, j \in DOMAIN Result.links_used :
              i # j => Result.links_used[i] # Result.links_used[j]
        /\ \A i \in DOMAIN Result.links_used :
              \E r \in DOMAIN website_links : website_links[r] = Result.links_used[i]

\* C22's case: a collection of four links, of which a success used three, and
\* not the first three in sheet order.
C22_Witness ==
    /\ CallSucceeded
    /\ Len(website_links) = 4
    /\ Result.links_used = <<"About", "Docs", "Pricing">>

\* The lines of the content on record.
MetaContentLines == SplitLines(meta.blog_content)

\* The whitespace-trimmed remainder of the first line that begins with the
\* sentinel, '' when no line does.
FirstRemainder(lines, sentinel) ==
    IF \A i \in DOMAIN lines : ~StartsWith(lines[i], sentinel) THEN << >>
    ELSE LET k == CHOOSE i \in DOMAIN lines :
                      /\ StartsWith(lines[i], sentinel)
                      /\ \A j \in 1..(i - 1) : ~StartsWith(lines[j], sentinel)
         IN  Strip(Tail(lines[k]))

\* C23: extract_blog_sections and extract_meta_from_blog return, for each of
\* the sentinels META_TITLE: and META_DESCRIPTION:, the whitespace-trimmed
\* remainder of the first line that begins with the sentinel, whatever lines
\* follow; 'META_TITLE: Foo\nMETA_DESCRIPTION: Bar\n\nBody' yields 'Foo' and
\* 'Bar'.
C23_FirstSentinelLineWins ==
    meta.done =>
        /\ meta.meta_title = FirstRemainder(MetaContentLines, META_TITLE)
        /\ meta.meta_description = FirstRemainder(MetaContentLines, META_DESCRIPTION)
        /\ meta.blog_content = <<META_TITLE, " ", "Foo", NewLine, META_DESCRIPTION, " ", "Bar",
                                 NewLine, NewLine, "Body">>
              => (meta.meta_title = <<"Foo">> /\ meta.meta_description = <<"Bar">>)

\* C24: at every point between topics, across any number of generate_blogs
\* calls on one pipeline, total_input_tokens, total_output_tokens and
\* total_cost of the pipeline are the sums of input_tokens, output_tokens and
\* cost over the successful entries of its result list; no call resets them.
C24_TotalsAreSumsOverSuccesses ==
    /\ pipe.total_input_tokens = SuccessSum(pipe.results, "input_tokens")
    /\ pipe.total_output_tokens = SuccessSum(pipe.results, "output_tokens")
    /\ pipe.total_cost = SuccessSum(pipe.results, "cost")

\* C24's case: a second generate_blogs call on a corpus of two topics has
\* returned; the list holds the four results of both calls, three of them
\* successes, and the totals count the three.
C24_Witness ==
    /\ batch.pc = "returned"
    /\ corpus.topics = 2
    /\ Len(pipe.results) = 4
    /\ pipe.results[1].status = "success"
    /\ pipe.results[2].status = "failed"
    /\ pipe.results[3].status = "success"
    /\ pipe.results[4].status = "success"
    /\ Totals(pipe) = <<150, 6, 8400>>

\* C26: each call generate_blogs(n) on a loaded pipeline returns exactly the
\* min(n, M) results that call produced, the k-th with blog_index k, also when
\* the pipeline has run a batch before.
C26_ReturnsThisCallsResults ==
    (batch.pc = "returned" /\ pipe.load_ret = "True" /\ batch.arg.given /\ batch.arg.n >= 0) =>
        /\ Len(batch.ret) = Min(batch.arg.n, corpus.topics)
        /\ \A k \in DOMAIN batch.ret : batch.ret[k].blog_index = k

\* C25: a generate_blog call that returns a failed result leaves the engine's
\* total_input_tokens, total_output_tokens and total_cost as they were before
\* the call, also when it fails after a model has responded.
C25_FailedCallLeavesCounters ==
    CallFailed => eng = call.before

\* The sum of a numeric field over the successful results the requests returned.
RECURSIVE ReturnedSum(_, _)
ReturnedSum(ths, field) ==
    IF ths = << >> THEN 0
    ELSE (IF Head(ths).result.status = "success" THEN Head(ths).result[field] ELSE 0)
         + ReturnedSum(Tail(ths), field)

\* C27: when two requests run generate_blog concurrently on the one engine of
\* the server, no update of its counters is lost: once both have finished,
\* total_input_tokens, total_output_tokens and total_cost are the sums over
\* the successful results returned.
C27_NoLostCounterUpdate ==
    (Len(threads) = 2 /\ \A t \in DOMAIN threads : threads[t].pc = "done") =>
        /\ eng.total_input_tokens = ReturnedSum(threads, "input_tokens")
        /\ eng.total_output_tokens = ReturnedSum(threads, "output_tokens")
        /\ eng.total_cost = ReturnedSum(threads, "cost")

\* C28: a POST to /api/generate-multiple never triggers more than 10
\* generate_blog calls, whatever integer 'count' (zero and negative values
\* included) and whatever 'topic_ids' list the body holds.
C28_AtMostTenCalls ==
    api.pc # "idle" => Len(api.results) <= ApiLimit

\* C29: in every 'completed' response of /api/generate-multiple,
\* summary.successful + summary.failed is the number of entries of results and
\* summary.failed is the number of results whose status is 'failed', also when
\* count exceeds the number of topics or of topic_ids.
C29_SummaryCountsResults ==
    (api.pc = "responded" /\ api.body.status = "completed") =>
        /\ api.body.summary.successful + api.body.summary.failed = Len(api.body.results)
        /\ api.body.summary.failed = Len(WithStatus(api.body.results, "failed"))

\* Every number of a report file that is there is spelled as a number.
WellFormedFiles ==
    \A k \in DOMAIN report.blog_files :
        LET file == report.blog_files[k]
        IN  /\ ParseTokens(file.input_tokens).raised = "" \/ file.input_tokens = Absent
            /\ ParseTokens(file.output_tokens).raised = "" \/ file.output_tokens = Absent
            /\ ParseCost(file.cost).raised = "" \/ file.cost = Absent

\* C30: create_manager_report, run as the script it is, computes average cost
\* per blog, cost per 1,000 tokens and tokens per blog without raising for
\* every set of report files, also when blog_*.txt files exist but none has
\* all of the topic, input-token, output-token and cost fields.
C30_ReportNeverRaises ==
    (report.done /\ report.pd_bound /\ WellFormedFiles) => report.out.raised = ""
====
